---- MODULE Spec2Model ----
(***************************************************************************)
(* Model of dinein_reservation_agent.py: the table inventory, the guest    *)
(* directory, the waitlist, table_optimization_agent, autofill_waitlist    *)
(* and the request handler of the main block.                              *)
(*                                                                         *)
(* The module-level lists mock_tables and mock_waitlist are the state.     *)
(* The functions of the module are called in any order: a direct call of   *)
(* table_optimization_agent, a direct call of autofill_waitlist, or the    *)
(* main block (parse, allocate, autofill).  autofill_waitlist is a loop    *)
(* over a copy of the waitlist; pc and idx are its position.               *)
(***************************************************************************)
EXTENDS Integers, Sequences, FiniteSets, TLC

VARIABLES
    tables,      \* mock_tables: sequence of Table records
    waitlist,    \* mock_waitlist: sequence of ReservationRequest
    pc,          \* position: "idle", "main_autofill", "autofill"
    req,         \* the request of the latest table_optimization_agent call
    outcome,     \* the ReservationStatus the latest call returned
    snapshot,    \* mock_waitlist[:] the autofill loop iterates over
    idx,         \* index of the next element of snapshot
    attempts,    \* number of table_optimization_agent calls made so far
    passStart,   \* mock_waitlist as it was when the latest autofill pass began
    attempted,   \* requests the latest autofill pass has re-attempted, in order
    promoted,    \* requests the latest autofill pass reported promoted
    prevOp,      \* the operation completed last
    inRow,       \* the latest autofill pass directly followed another pass
    noShow,      \* predict_no_show returned True in the step just taken
    committed,   \* the (table_id, date, time) of every confirmed allocation
    threads      \* concurrent callers: position, request and preferred_tables

vars == <<tables, waitlist, pc, req, outcome, snapshot, idx, attempts,
          passStart, attempted, promoted, prevOp, inRow, noShow, committed,
          threads>>

(***************************************************************************)
(* Bounds of the model.                                                    *)
(***************************************************************************)
NumTables == 2      \* tables in the inventory (the script builds ten)
MaxAttempts == 4    \* table_optimization_agent calls in one behaviour
NumIds == 2         \* distinct numbers random.randint is let to return
MaxQueue == 2       \* new requests arrive while the waitlist is shorter

(***************************************************************************)
(* Program constants.                                                      *)
(***************************************************************************)
IdLo == 1000
IdHi == 9999
SeatChoices == {2, 4, 6}
TypeChoices == {"booth", "window", "standard"}

None == "None"

Min(a, b) == IF a < b THEN a ELSE b
Range(s) == {s[i] : i \in DOMAIN s}

\* random.randint(1000, 9999), cut to NumIds values
RandIds == IdLo .. Min(IdHi, IdLo + NumIds - 1)

(***************************************************************************)
(* Inputs: the requests callers and the parser produce.                    *)
(***************************************************************************)
GuestIds == {"G123", "G999"}
PartySizes == {4, 7}
Dates == {"2025-07-15"}
Times == {"19:00"}
Channels == {"web"}
RequestTypes == {"any", "window"}

\* every combination at the first time, and one request at a second time
Requests ==
    [guest_id : GuestIds, party_size : PartySizes, date : Dates,
     time : Times, channel : Channels, table_type : RequestTypes]
    \cup [guest_id : {"G999"}, party_size : {4}, date : Dates,
          time : {"20:00"}, channel : Channels, table_type : {"any"}]

\* requests the class accepts as well: a party of nobody, and two requests
\* whose dates and times differ and hold a blank
EdgeRequests ==
    {[guest_id |-> "G999", party_size |-> 0, date |-> "2025-07-15",
      time |-> "19:00", channel |-> "web", table_type |-> "any"],
     [guest_id |-> "G999", party_size |-> 4, date |-> "2025-07-15",
      time |-> "19:00 20:00", channel |-> "web", table_type |-> "any"],
     [guest_id |-> "G999", party_size |-> 4, date |-> "2025-07-15 19:00",
      time |-> "20:00", channel |-> "web", table_type |-> "any"]}

\* requests of callers that run at the same time
ThreadRequests ==
    [guest_id : GuestIds, party_size : {4}, date : Dates, time : Times,
     channel : Channels, table_type : {"any"}]

NoRequest == [guest_id |-> None, party_size |-> 0, date |-> None,
              time |-> None, channel |-> None, table_type |-> None]

NoOutcome == [reservation_id |-> None, guest_id |-> None, table_id |-> None,
              status |-> "none", reason |-> None]

(***************************************************************************)
(* Mock data.                                                              *)
(***************************************************************************)
Table(i, seats, type) ==
    [table_id |-> "T" \o ToString(i), seats |-> seats, type |-> type,
     is_available |-> TRUE, reserved_slots |-> <<>>]

mock_guest_profiles ==
    [g \in {"G123"} |->
        [guest_id |-> "G123", name |-> "Alice", loyalty_status |-> "Gold",
         preferences |-> <<"window", "vegetarian">>,
         visit_history |-> <<"2025-07-01", "2025-07-05">>]]

(***************************************************************************)
(* Agent functions.                                                        *)
(***************************************************************************)
SlotKey(date, time) == date \o " " \o time

\* variant: the key is looked up without the separating blank
is_conflict_nospace(table, date, time) ==
    (date \o time) \in Range(table.reserved_slots)

\* variant: only the slot recorded last is compared
is_conflict_last(table, date, time) ==
    /\ table.reserved_slots # <<>>
    /\ table.reserved_slots[Len(table.reserved_slots)] = SlotKey(date, time)

is_conflict(table, date, time) ==
    SlotKey(date, time) \in Range(table.reserved_slots)

\* the list comprehension: indices of the eligible tables, in inventory order
RECURSIVE FilterFrom(_, _, _)
FilterFrom(tbls, request, i) ==
    IF i > Len(tbls) THEN <<>>
    ELSE LET t == tbls[i]
             keep == /\ t.seats >= request.party_size
                     /\ (request.table_type = "any" \/ t.type = request.table_type)
                     /\ ~is_conflict(t, request.date, request.time)
         IN (IF keep THEN <<i>> ELSE <<>>) \o FilterFrom(tbls, request, i + 1)

Candidates(tbls, request) == FilterFrom(tbls, request, 1)

\* list.sort(key=...): stable, ascending in key
RECURSIVE StableSort(_, _)
StableSort(s, key) ==
    IF s = <<>> THEN <<>>
    ELSE LET front == StableSort(SubSeq(s, 1, Len(s) - 1), key)
             x == s[Len(s)]
             NotAfter(y) == key[y] <= key[x]
             After(y) == key[y] > key[x]
         IN SelectSeq(front, NotAfter) \o <<x>> \o SelectSeq(front, After)

\* variant: the two key values are exchanged
PreferenceKeySwapped(tbls, guest) ==
    [i \in DOMAIN tbls |->
        IF tbls[i].type \in Range(guest.preferences) THEN 1 ELSE 0]

\* key=lambda x: 0 if x.type in guest.preferences else 1
PreferenceKey(tbls, guest) ==
    [i \in DOMAIN tbls |->
        IF tbls[i].type \in Range(guest.preferences) THEN 0 ELSE 1]

IsGold(guest_id) ==
    /\ guest_id \in DOMAIN mock_guest_profiles
    /\ mock_guest_profiles[guest_id].loyalty_status = "Gold"

\* variant: the sort runs for every guest, with the profile of G123
PreferredTablesUngated(tbls, request) ==
    StableSort(Candidates(tbls, request),
               PreferenceKey(tbls, mock_guest_profiles["G123"]))

\* preferred_tables after the filter and the loyalty sort
PreferredTables(tbls, request) ==
    LET cands == Candidates(tbls, request)
    IN IF IsGold(request.guest_id)
       THEN StableSort(cands,
                PreferenceKey(tbls, mock_guest_profiles[request.guest_id]))
       ELSE cands

\* variant: the slot is not recorded, only the flag is set
CommitFlagOnly(tbls, i, request) ==
    [tbls EXCEPT ![i].is_available = FALSE]

\* variant: the list is assigned instead of appended to
CommitReplace(tbls, i, request) ==
    [tbls EXCEPT ![i].reserved_slots = <<SlotKey(request.date, request.time)>>,
                 ![i].is_available = FALSE]

\* table.reserved_slots.append(...); table.is_available = False
Commit(tbls, i, request) ==
    [tbls EXCEPT ![i].reserved_slots =
                     Append(@, SlotKey(request.date, request.time)),
                 ![i].is_available = FALSE]

\* variant: the waitlisted status names the first table of the inventory
CommitOrWaitlistNamesTable(tbls, wl, request, preferred, n) ==
       IF preferred # <<>>
       THEN [tables |-> Commit(tbls, preferred[1], request),
             waitlist |-> wl,
             status |-> [reservation_id |-> "R" \o ToString(n),
                         guest_id |-> request.guest_id,
                         table_id |-> tbls[preferred[1]].table_id,
                         status |-> "confirmed",
                         reason |-> None]]
       ELSE [tables |-> tbls,
             waitlist |-> Append(wl, request),
             status |-> [reservation_id |-> "W" \o ToString(n),
                         guest_id |-> request.guest_id,
                         table_id |-> tbls[1].table_id,
                         status |-> "waitlisted",
                         reason |-> "No available table at requested time"]]

\* if preferred_tables: ... else: ..., the part of the call after the filter
\* and the sort
CommitOrWaitlist(tbls, wl, request, preferred, n) ==
       IF preferred # <<>>
       THEN [tables |-> Commit(tbls, preferred[1], request),
             waitlist |-> wl,
             status |-> [reservation_id |-> "R" \o ToString(n),
                         guest_id |-> request.guest_id,
                         table_id |-> tbls[preferred[1]].table_id,
                         status |-> "confirmed",
                         reason |-> None]]
       ELSE [tables |-> tbls,
             waitlist |-> Append(wl, request),
             status |-> [reservation_id |-> "W" \o ToString(n),
                         guest_id |-> request.guest_id,
                         table_id |-> None,
                         status |-> "waitlisted",
                         reason |-> "No available table at requested time"]]

\* one call: the tables, the waitlist and the returned status after it
table_optimization_agent(tbls, wl, request, n) ==
    CommitOrWaitlist(tbls, wl, request, PreferredTables(tbls, request), n)

\* list.remove(x): drops the first element equal to x
RemoveFirst(s, x) ==
    LET hits == {i \in DOMAIN s : s[i] = x}
        k == CHOOSE i \in hits : \A j \in hits : i <= j
    IN IF hits = {} THEN s
       ELSE SubSeq(s, 1, k - 1) \o SubSeq(s, k + 1, Len(s))

(***************************************************************************)
(* The parser: invoke_nova's text, json.loads and the request's validation *)
(***************************************************************************)
FieldNames == {"guest_id", "party_size", "date", "time", "channel", "table_type"}
RequiredFields == FieldNames \ {"table_type"}

\* the keys the decoded object holds: all, none ("{}"), or one of the four
\* fields the prompt and the class give a default for is missing
FieldSets ==
    {FieldNames, {}}
    \cup {FieldNames \ {f} : f \in {"table_type", "time", "date", "party_size"}}

\* the decoded object: a key that is absent carries no value
Decoded(r, F) ==
    [guest_id |-> IF "guest_id" \in F THEN r.guest_id ELSE NoRequest.guest_id,
     party_size |-> IF "party_size" \in F THEN r.party_size ELSE NoRequest.party_size,
     date |-> IF "date" \in F THEN r.date ELSE NoRequest.date,
     time |-> IF "time" \in F THEN r.time ELSE NoRequest.time,
     channel |-> IF "channel" \in F THEN r.channel ELSE NoRequest.channel,
     table_type |-> IF "table_type" \in F THEN r.table_type ELSE NoRequest.table_type]

\* a response is text that is JSON or not; if JSON, the keys it holds.  The
\* objects that lack time, date or party_size, or everything, are built from
\* one request; those with every key or all but table_type from each request
SampleRequest ==
    [guest_id |-> "G123", party_size |-> 4, date |-> "2025-07-15",
     time |-> "19:00", channel |-> "web", table_type |-> "window"]

Responses ==
    {[json |-> FALSE, fields |-> {}, data |-> NoRequest]}
    \cup {[json |-> TRUE, fields |-> F, data |-> Decoded(r, F)] :
             r \in Requests, F \in {FieldNames, FieldNames \ {"table_type"}}}
    \cup {[json |-> TRUE, fields |-> F, data |-> Decoded(SampleRequest, F)] :
             F \in FieldSets}

\* json.loads succeeds and every field without a default is given
Decodable(resp) == resp.json /\ RequiredFields \subseteq resp.fields

\* ReservationRequest(**data): table_type defaults to "any"
ReservationRequest(resp) ==
    [resp.data EXCEPT !.table_type =
        IF "table_type" \in resp.fields THEN resp.data.table_type ELSE "any"]

\* variant: the draw is returned for every guest_id
predict_no_show_ungated(guest_id, low) == low

\* low: random.random() < 0.1
predict_no_show(guest_id, low) ==
    IF guest_id \notin DOMAIN mock_guest_profiles THEN FALSE ELSE low

\* callers that run table_optimization_agent at the same time
ThreadIds == {1, 2}

NoThread == [pc |-> "idle", request |-> NoRequest, preferred |-> <<>>]

(***************************************************************************)
(* Initial state.                                                          *)
(***************************************************************************)
Init ==
    /\ tables \in {t \in [1 .. NumTables ->
                            [table_id : {"T" \o ToString(i) : i \in 1 .. NumTables},
                             seats : SeatChoices, type : TypeChoices,
                             is_available : {TRUE}, reserved_slots : {<<>>}]] :
                     \A i \in 1 .. NumTables : t[i] = Table(i, t[i].seats, t[i].type)}
    /\ waitlist = <<>>
    /\ pc = "idle"
    /\ req = NoRequest
    /\ outcome = NoOutcome
    /\ snapshot = <<>>
    /\ idx = 1
    /\ attempts = 0
    /\ passStart = <<>>
    /\ attempted = <<>>
    /\ promoted = <<>>
    /\ prevOp = "none"
    /\ inRow = FALSE
    /\ noShow = FALSE
    /\ committed = {}
    /\ threads = [th \in ThreadIds |-> NoThread]

(***************************************************************************)
(* Operations.                                                             *)
(***************************************************************************)
\* what one call of table_optimization_agent leaves in the state
Returned(request, res) ==
    /\ tables' = res.tables
    /\ req' = request
    /\ outcome' = res.status
    /\ attempts' = attempts + 1
    /\ committed' =
          IF res.status.status = "confirmed"
          THEN committed \cup {<<res.status.table_id, request.date, request.time>>}
          ELSE committed

\* a caller invokes table_optimization_agent(request)
CallAllocate(request) ==
    /\ pc = "idle"
    /\ attempts < MaxAttempts
    /\ Len(waitlist) < MaxQueue
    /\ \E n \in RandIds :
        LET res == table_optimization_agent(tables, waitlist, request, n)
        IN /\ Returned(request, res)
           /\ waitlist' = res.waitlist
    /\ prevOp' = "allocate"
    /\ noShow' = FALSE
    /\ UNCHANGED <<pc, snapshot, idx, passStart, attempted, promoted, inRow,
                   threads>>

\* variant: a response that cannot be decoded is given the defaults of the
\* prompt and allocated
MainRequestDefaults(resp) ==
    /\ pc = "idle"
    /\ attempts + Len(waitlist) + 2 <= MaxAttempts
    /\ Len(waitlist) < MaxQueue
    /\ \E n \in RandIds :
        LET request == IF Decodable(resp) THEN ReservationRequest(resp)
                       ELSE [guest_id |-> "G123", party_size |-> 4,
                             date |-> "2025-07-15", time |-> "19:00",
                             channel |-> "web", table_type |-> "any"]
            res == table_optimization_agent(tables, waitlist, request, n)
        IN /\ Returned(request, res)
           /\ waitlist' = res.waitlist
           /\ \E low \in BOOLEAN :
                 noShow' = predict_no_show(request.guest_id, low)
    /\ pc' = "main_autofill"
    /\ prevOp' = "allocate"
    /\ UNCHANGED <<snapshot, idx, passStart, attempted, promoted, inRow, threads>>

\* main block up to the call of autofill_waitlist: parse the request, call
\* predict_no_show, then status = table_optimization_agent(req); an exception
\* of the parser ends the block in its except branch
MainRequest(resp) ==
    /\ pc = "idle"
    /\ IF Decodable(resp)
       THEN /\ attempts + Len(waitlist) + 2 <= MaxAttempts
            /\ Len(waitlist) < MaxQueue
            /\ \E n \in RandIds :
                LET request == ReservationRequest(resp)
                    res == table_optimization_agent(tables, waitlist, request, n)
                IN /\ Returned(request, res)
                   /\ waitlist' = res.waitlist
                   /\ \E low \in BOOLEAN :
                         noShow' = predict_no_show(request.guest_id, low)
            /\ pc' = "main_autofill"
            /\ prevOp' = "allocate"
       ELSE /\ pc' = "idle"
            /\ prevOp' = "parse_failed"
            /\ noShow' = FALSE
            /\ UNCHANGED <<tables, waitlist, req, outcome, attempts, committed>>
    /\ UNCHANGED <<snapshot, idx, passStart, attempted, promoted, inRow, threads>>

\* a caller invokes predict_no_show(guest_id)
PredictNoShow(guest_id) ==
    /\ pc = "idle"
    /\ \E low \in BOOLEAN : noShow' = predict_no_show(guest_id, low)
    /\ UNCHANGED <<tables, waitlist, pc, req, outcome, snapshot, idx, attempts,
                   passStart, attempted, promoted, prevOp, inRow, committed,
                   threads>>

\* variant: Gold guests are moved to the front of the copy
WaitlistCopyGoldFirst(wl) ==
    LET Gold(r) == IsGold(r.guest_id)
        Other(r) == ~IsGold(r.guest_id)
    IN SelectSeq(wl, Gold) \o SelectSeq(wl, Other)

\* mock_waitlist[:]
WaitlistCopy(wl) == wl

\* autofill_waitlist up to the loop header: return on an empty waitlist,
\* else copy the list to iterate over
AutofillBegin ==
    /\ pc \in {"idle", "main_autofill"}
    /\ pc = "idle" => attempts + Len(waitlist) <= MaxAttempts
    /\ inRow' = (prevOp = "autofill")
    /\ passStart' = waitlist
    /\ attempted' = <<>>
    /\ promoted' = <<>>
    /\ IF waitlist = <<>>
       THEN /\ pc' = "idle"
            /\ prevOp' = "autofill"
            /\ UNCHANGED <<snapshot, idx>>
       ELSE /\ pc' = "autofill"
            /\ snapshot' = WaitlistCopy(waitlist)
            /\ idx' = 1
            /\ prevOp' = prevOp
    /\ noShow' = FALSE
    /\ UNCHANGED <<tables, waitlist, req, outcome, attempts, committed, threads>>

\* variant: if status:
PromotesAlways(status) == status.status # "none"

\* if status.status == "confirmed"
Promotes(status) == status.status = "confirmed"

\* one iteration of the loop of autofill_waitlist
AutofillStep ==
    /\ pc = "autofill"
    /\ \E n \in RandIds :
        LET request == snapshot[idx]
            res == table_optimization_agent(tables, waitlist, request, n)
        IN /\ Returned(request, res)
           /\ attempted' = Append(attempted, request)
           /\ IF Promotes(res.status)
              THEN /\ promoted' = Append(promoted, request)
                   /\ waitlist' = RemoveFirst(res.waitlist, request)
              ELSE /\ promoted' = promoted
                   /\ waitlist' = res.waitlist
    /\ idx' = idx + 1
    /\ IF idx = Len(snapshot)
       THEN pc' = "idle" /\ prevOp' = "autofill"
       ELSE pc' = "autofill" /\ prevOp' = prevOp
    /\ noShow' = FALSE
    /\ UNCHANGED <<snapshot, passStart, inRow, threads>>

\* lines 122-131 of table_optimization_agent, run by one of several callers
\* at the same time: the filter and the sort, up to the test of the result
ThreadFilter(th, request) ==
    /\ pc = "idle"
    /\ threads[th].pc = "idle"
    /\ attempts + Cardinality({u \in ThreadIds : threads[u].pc = "commit"})
          < MaxAttempts
    /\ threads' = [threads EXCEPT ![th] =
                      [pc |-> "commit", request |-> request,
                       preferred |-> PreferredTables(tables, request)]]
    /\ UNCHANGED <<tables, waitlist, pc, req, outcome, snapshot, idx, attempts,
                   passStart, attempted, promoted, prevOp, inRow, noShow,
                   committed>>

\* lines 133-152 of the same call: commit the first table found, or waitlist
ThreadCommit(th) ==
    /\ pc = "idle"
    /\ threads[th].pc = "commit"
    /\ \E n \in RandIds :
        LET res == CommitOrWaitlist(tables, waitlist, threads[th].request,
                                    threads[th].preferred, n)
        IN /\ Returned(threads[th].request, res)
           /\ waitlist' = res.waitlist
    /\ threads' = [threads EXCEPT ![th] = NoThread]
    /\ prevOp' = "allocate"
    /\ noShow' = FALSE
    /\ UNCHANGED <<pc, snapshot, idx, passStart, attempted, promoted, inRow>>

Next ==
    \/ \E request \in Requests : CallAllocate(request)
    \/ \E resp \in Responses : MainRequest(resp)
    \/ \E guest_id \in GuestIds : PredictNoShow(guest_id)
    \/ AutofillBegin
    \/ AutofillStep

Spec == Init /\ [][Next]_vars

\* the same operations on the requests of EdgeRequests
NextEdge ==
    \/ \E request \in EdgeRequests : CallAllocate(request)
    \/ AutofillBegin
    \/ AutofillStep

SpecEdge == Init /\ [][NextEdge]_vars

\* callers that run table_optimization_agent at the same time
NextThreads ==
    \/ \E th \in ThreadIds, request \in ThreadRequests : ThreadFilter(th, request)
    \/ \E th \in ThreadIds : ThreadCommit(th)

SpecThreads == Init /\ [][NextThreads]_vars

TypeOK ==
    /\ pc \in {"idle", "main_autofill", "autofill"}
    /\ attempts \in 0 .. MaxAttempts
    /\ Len(waitlist) <= attempts

(***************************************************************************)
(* Vocabulary of the properties.                                           *)
(***************************************************************************)
\* this step is one call of table_optimization_agent, of req', returning outcome'
Called == attempts' = attempts + 1

\* the table has the seats, the type and no committed slot the request asks for
Eligible(t, r) ==
    /\ t.seats >= r.party_size
    /\ (r.table_type = "any" \/ t.type = r.table_type)
    /\ \A k \in DOMAIN t.reserved_slots :
           t.reserved_slots[k] # SlotKey(r.date, r.time)

EligibleSet(tbls, r) == {i \in DOMAIN tbls : Eligible(tbls[i], r)}

Least(S) == CHOOSE i \in S : \A j \in S : i <= j

Count(s, x) == Cardinality({i \in DOMAIN s : s[i] = x})

GoldGuest(r) ==
    /\ r.guest_id \in DOMAIN mock_guest_profiles
    /\ mock_guest_profiles[r.guest_id].loyalty_status = "Gold"

Preferred(tbls, r) ==
    {i \in EligibleSet(tbls, r) :
        \E k \in DOMAIN mock_guest_profiles[r.guest_id].preferences :
            mock_guest_profiles[r.guest_id].preferences[k] = tbls[i].type}

PassDone == pc = "idle" /\ prevOp = "autofill"

(***************************************************************************)
(* C1: whenever a call finds at least one table that has the seats, the    *)
(* type and a free slot for the request, it returns "confirmed" with the   *)
(* table_id of a table that was eligible before the call, and after the    *)
(* call is_conflict of that table and the request's date and time is true. *)
(***************************************************************************)
C1_ConfirmedWhenEligible ==
    [][(Called /\ EligibleSet(tables, req') # {}) =>
          /\ outcome'.status = "confirmed"
          /\ \E i \in EligibleSet(tables, req') :
                /\ outcome'.table_id = tables[i].table_id
                /\ is_conflict(tables'[i], req'.date, req'.time)]_vars

\* a request was confirmed on the second table, the first holding the slot
C1_Witness ==
    /\ outcome.status = "confirmed"
    /\ outcome.table_id = "T2"
    /\ is_conflict(tables[1], req.date, req.time)
    /\ is_conflict(tables[2], req.date, req.time)

(***************************************************************************)
(* C2: whenever a call finds no eligible table, it returns "waitlisted"    *)
(* without a table_id and the request is afterwards in the waitlist        *)
(* exactly once.                                                           *)
(***************************************************************************)
C2_WaitlistedExactlyOnce ==
    [][(Called /\ EligibleSet(tables, req') = {}) =>
          /\ outcome'.status = "waitlisted"
          /\ outcome'.table_id = None
          /\ Count(waitlist', req') = 1]_vars

(***************************************************************************)
(* C3: no table's reserved_slots ever holds the same slot twice.           *)
(***************************************************************************)
C3_NoDoubleBooking ==
    \A i \in DOMAIN tables :
        \A k, l \in DOMAIN tables[i].reserved_slots :
            k # l => tables[i].reserved_slots[k] # tables[i].reserved_slots[l]

\* one table holds two slots, and the other table holds one of them too
C3_Witness ==
    \E i, j \in DOMAIN tables :
        /\ i # j
        /\ Len(tables[i].reserved_slots) = 2
        /\ \E k \in DOMAIN tables[j].reserved_slots :
               tables[j].reserved_slots[k] = tables[i].reserved_slots[1]

(***************************************************************************)
(* C4: for a guest of the directory with loyalty status Gold, the table    *)
(* chosen is the first eligible table in inventory order whose type is in  *)
(* the guest's preferences, if there is one, else the first eligible table.*)
(***************************************************************************)
C4_GoldPreference ==
    [][(Called /\ GoldGuest(req') /\ EligibleSet(tables, req') # {}) =>
          outcome'.table_id =
              tables[IF Preferred(tables, req') # {}
                     THEN Least(Preferred(tables, req'))
                     ELSE Least(EligibleSet(tables, req'))].table_id]_vars

\* the Gold guest got the window table T2 although T1, not a window table,
\* has the seats and is still free for the slot
C4_Witness ==
    /\ req.guest_id = "G123"
    /\ req.table_type = "any"
    /\ outcome.status = "confirmed"
    /\ outcome.table_id = "T2"
    /\ tables[2].type = "window"
    /\ tables[1].type # "window"
    /\ Eligible(tables[1], req)

(***************************************************************************)
(* C5: for a guest who is not in the directory, or is in it without Gold   *)
(* status, the call returns an outcome as for any other guest, and the     *)
(* table chosen is the first eligible table in inventory order.            *)
(***************************************************************************)
C5_PlainOrderWithoutGold ==
    [][(Called /\ ~GoldGuest(req')) =>
          /\ outcome'.status \in {"confirmed", "waitlisted"}
          /\ outcome'.guest_id = req'.guest_id
          /\ EligibleSet(tables, req') # {} =>
                outcome'.table_id =
                    tables[Least(EligibleSet(tables, req'))].table_id]_vars

\* the unknown guest got T1, not a window table, although the window table
\* T2 has the seats and is still free for the slot
C5_Witness ==
    /\ req.guest_id = "G999"
    /\ req.table_type = "any"
    /\ outcome.status = "confirmed"
    /\ outcome.table_id = "T1"
    /\ tables[1].type # "window"
    /\ tables[2].type = "window"
    /\ Eligible(tables[2], req)

(***************************************************************************)
(* C6: an autofill pass that directly follows another autofill pass        *)
(* promotes no request.                                                    *)
(***************************************************************************)
C6_AutofillIdempotent == inRow => promoted = <<>>

\* a second pass in a row has run to its end over a waitlist that is not empty
C6_Witness ==
    /\ inRow
    /\ PassDone
    /\ passStart # <<>>
    /\ attempted = passStart

(***************************************************************************)
(* C7: when an autofill pass has ended, the waitlist is the waitlist the   *)
(* pass began with, less the promoted requests, in the same order; nothing *)
(* is added or duplicated.                                                 *)
(***************************************************************************)
RECURSIVE RemoveEach(_, _)
RemoveEach(s, xs) ==
    IF xs = <<>> THEN s ELSE RemoveEach(RemoveFirst(s, xs[1]), Tail(xs))

C7_PassOnlyRemoves ==
    PassDone =>
        /\ waitlist = RemoveEach(passStart, promoted)
        /\ \A k \in DOMAIN promoted : Count(waitlist, promoted[k]) = 0

(***************************************************************************)
(* C8: an autofill pass re-attempts the queued requests in the order they  *)
(* were queued, whatever their guests' loyalty: what it has attempted so   *)
(* far is a prefix of the waitlist it began with, and all of it at the end.*)
(***************************************************************************)
C8_AutofillFifo ==
    /\ Len(attempted) <= Len(passStart)
    /\ attempted = SubSeq(passStart, 1, Len(attempted))
    /\ (PassDone => attempted = passStart)

\* a pass has ended that began with a request of the unknown guest queued
\* before a request of the Gold guest for the same slot and type
C8_Witness ==
    /\ PassDone
    /\ Len(passStart) = 2
    /\ attempted = passStart
    /\ ~GoldGuest(passStart[1])
    /\ GoldGuest(passStart[2])
    /\ passStart[1].time = passStart[2].time
    /\ passStart[1].party_size = 4
    /\ passStart[2].party_size = 4

(***************************************************************************)
(* C9: no two outcomes carry the same reservation_id; here, for an outcome *)
(* and the outcome of the call before it.                                  *)
(***************************************************************************)
C9_UniqueReservationIds ==
    [][(Called /\ outcome.status # "none") =>
          outcome'.reservation_id # outcome.reservation_id]_vars

(***************************************************************************)
(* C10: when the parser's response cannot be decoded into a request, the   *)
(* main block ends in its except branch: no call of                        *)
(* table_optimization_agent is made, the tables and the waitlist are       *)
(* unchanged, no outcome is produced and nothing is retried.               *)
(***************************************************************************)
Undecodable == {resp \in Responses : ~Decodable(resp)}

C10_ParseFailureStops ==
    [][\A resp \in Undecodable :
          MainRequest(resp) =>
              /\ UNCHANGED <<tables, waitlist, outcome, attempts>>
              /\ pc' = "idle"
              /\ prevOp' = "parse_failed"]_vars

\* the parse failed in a state with a committed slot and a queued request
C10_Witness ==
    /\ prevOp = "parse_failed"
    /\ pc = "idle"
    /\ waitlist # <<>>
    /\ \E i \in DOMAIN tables : tables[i].reserved_slots # <<>>

(***************************************************************************)
(* C11: when the decoded object omits table_type, time, date or            *)
(* party_size, the main block goes on with a request that holds the        *)
(* default for it: "any", "19:00", "2025-07-15", 2.                        *)
(***************************************************************************)
Defaulted == {"table_type", "time", "date", "party_size"}

OmitsDefaulted ==
    {resp \in Responses :
        /\ resp.json
        /\ resp.fields # FieldNames
        /\ (FieldNames \ resp.fields) \subseteq Defaulted}

WithDefaults(resp) ==
    [guest_id |-> resp.data.guest_id,
     channel |-> resp.data.channel,
     party_size |-> IF "party_size" \in resp.fields THEN resp.data.party_size ELSE 2,
     date |-> IF "date" \in resp.fields THEN resp.data.date ELSE "2025-07-15",
     time |-> IF "time" \in resp.fields THEN resp.data.time ELSE "19:00",
     table_type |-> IF "table_type" \in resp.fields THEN resp.data.table_type
                    ELSE "any"]

C11_DefaultsSubstituted ==
    [][\A resp \in OmitsDefaulted :
          MainRequest(resp) => (Called /\ req' = WithDefaults(resp))]_vars

(***************************************************************************)
(* C12: predict_no_show returns false for a guest_id the directory lacks   *)
(* and changes neither the tables nor the waitlist; in the main block the  *)
(* status and the table of the allocation that follows are what the        *)
(* tables and the request alone decide, whatever predict_no_show returned. *)
(***************************************************************************)
Unknown(guest_id) == guest_id \notin DOMAIN mock_guest_profiles

ExpectedTable(tbls, r) ==
    IF GoldGuest(r) /\ Preferred(tbls, r) # {}
    THEN Least(Preferred(tbls, r))
    ELSE Least(EligibleSet(tbls, r))

MainStep == pc = "idle" /\ pc' = "main_autofill"

C12_NoShowAdvisory ==
    [][/\ \A guest_id \in GuestIds :
             PredictNoShow(guest_id) =>
                 /\ UNCHANGED <<tables, waitlist, committed>>
                 /\ Unknown(guest_id) => noShow' = FALSE
       /\ MainStep =>
             /\ Unknown(req'.guest_id) => noShow' = FALSE
             /\ IF EligibleSet(tables, req') # {}
                THEN /\ outcome'.status = "confirmed"
                     /\ outcome'.table_id =
                            tables[ExpectedTable(tables, req')].table_id
                ELSE /\ outcome'.status = "waitlisted"
                     /\ outcome'.table_id = None]_vars

\* the main block allocated a table right after predict_no_show returned True
C12_Witness ==
    /\ noShow
    /\ pc = "main_autofill"
    /\ outcome.status = "confirmed"

(***************************************************************************)
(* C13: an outcome carries a table_id if and only if its status is         *)
(* "confirmed", and the table_id is that of a table of the inventory.      *)
(***************************************************************************)
C13_TableIdIffConfirmed ==
    outcome.status # "none" =>
        /\ (outcome.table_id # None) <=> (outcome.status = "confirmed")
        /\ outcome.table_id # None =>
              \E i \in DOMAIN tables : tables[i].table_id = outcome.table_id

\* a confirmed outcome on T2 after another request was waitlisted
C13_Witness ==
    /\ outcome.status = "confirmed"
    /\ outcome.table_id = "T2"
    /\ waitlist # <<>>

(***************************************************************************)
(* C14: is_conflict of a table, a date and a time is true if and only if   *)
(* a confirmed allocation committed that very date and time on the table.  *)
(***************************************************************************)
C14_ConflictIffCommitted ==
    \A i \in DOMAIN tables : \A r \in EdgeRequests :
        is_conflict(tables[i], r.date, r.time)
            <=> <<tables[i].table_id, r.date, r.time>> \in committed

(***************************************************************************)
(* C15: a confirmed call appends one slot to the table it names and        *)
(* leaves the other tables, that table's seats and type, and the waitlist  *)
(* as they were; a waitlisted call leaves the tables as they were and      *)
(* appends the request to the waitlist; no step removes a committed slot.  *)
(***************************************************************************)
IsPrefix(s, t) == Len(s) <= Len(t) /\ s = SubSeq(t, 1, Len(s))

C15_AllocationFrame ==
    [][/\ \A i \in DOMAIN tables :
             IsPrefix(tables[i].reserved_slots, tables'[i].reserved_slots)
       /\ Called =>
             IF outcome'.status = "confirmed"
             THEN /\ waitlist' = waitlist
                  /\ \E i \in DOMAIN tables :
                        /\ tables[i].table_id = outcome'.table_id
                        /\ tables'[i].reserved_slots =
                               Append(tables[i].reserved_slots,
                                      SlotKey(req'.date, req'.time))
                        /\ tables'[i].seats = tables[i].seats
                        /\ tables'[i].type = tables[i].type
                        /\ tables'[i].table_id = tables[i].table_id
                        /\ \A j \in DOMAIN tables \ {i} : tables'[j] = tables[j]
             ELSE /\ tables' = tables
                  /\ waitlist' = Append(waitlist, req')]_vars

\* a confirmed call added a second slot to a table while a request is queued
C15_Witness ==
    /\ outcome.status = "confirmed"
    /\ waitlist # <<>>
    /\ \E i \in DOMAIN tables :
          /\ tables[i].table_id = outcome.table_id
          /\ Len(tables[i].reserved_slots) = 2

(***************************************************************************)
(* C16: a confirmed outcome is for a request whose party size is at least  *)
(* one and at most the seats of the table it names.                        *)
(***************************************************************************)
C16_PartySizeFits ==
    [][(Called /\ outcome'.status = "confirmed") =>
          /\ req'.party_size >= 1
          /\ \A i \in DOMAIN tables :
                tables[i].table_id = outcome'.table_id =>
                    req'.party_size <= tables[i].seats]_vars

(***************************************************************************)
(* C17: no call made by an autofill pass is confirmed: each one returns    *)
(* "waitlisted", the pass promotes nothing and removes nothing from the    *)
(* waitlist.                                                               *)
(***************************************************************************)
C17_AutofillNeverPromotes ==
    [][(pc = "autofill" /\ Called) =>
          /\ outcome'.status = "waitlisted"
          /\ promoted' = <<>>
          /\ IsPrefix(waitlist, waitlist')]_vars

\* a first pass has ended over a queued request that a table has the seats
\* for, the slot being committed on it
C17_Witness ==
    /\ PassDone
    /\ ~inRow
    /\ passStart # <<>>
    /\ attempted = passStart
    /\ \E i \in DOMAIN tables :
          /\ tables[i].seats >= passStart[1].party_size
          /\ is_conflict(tables[i], passStart[1].date, passStart[1].time)

(***************************************************************************)
(* C18: when calls of table_optimization_agent for the same date and time  *)
(* run at the same time, filter and commit interleaved, no table gets the  *)
(* same slot from two of them.                                             *)
(***************************************************************************)
C18_NoRaceDoubleCommit ==
    \A i \in DOMAIN tables :
        Cardinality(Range(tables[i].reserved_slots))
            = Len(tables[i].reserved_slots)

====
